---- MODULE Spec2Model ----
(***************************************************************************)
(* Model of meld/runner/transform/restraints/meld.py: the                  *)
(* MeldRestraintTransformer, its _RestraintTracker and the module level    *)
(* helpers _add_meld_restraint and _setup_precisions.                      *)
(*                                                                         *)
(* Numbers are fixed point: alpha is counted in steps of 1/AlphaSteps, a   *)
(* scaler returns its multiplier in the same unit, a sampled parameter is  *)
(* held in tenths.  A restraint object is a record [kind, n]; n is its     *)
(* identity and every field of the object is derived from kind and n.      *)
(* Engine arguments are integers or sequences of integers (array           *)
(* arguments).                                                             *)
(***************************************************************************)
EXTENDS Integers, Sequences, FiniteSets, TLC

\* ---------------------------------------------------------------- bounds
MaxAlways == 2
MaxColls == 2
MaxGroups == 2
MaxRests == 2
MaxRegs == 2

\* alpha runs over 0 .. 1 in steps of 1/AlphaSteps; timesteps are counted.
Alphas == {0, 1, 2}

AlphaSteps == Cardinality(Alphas) - 1

Timesteps == {0, 1}

\* ------------------------------------------------------ restraint objects
KnownKinds ==
  {"Distance", "HyperbolicDistance", "Torsion", "DistProfile", "TorsProfile",
   "GMMDistance"}

\* A selectable restraint class that is none of the six the transformer knows.
OtherKind == "OtherSelectable"

SelectableKinds == KnownKinds \cup {OtherKind}

NonSelectableKind == "NonSelectable"

Min(a, b) == IF a <= b THEN a ELSE b

Max(a, b) == IF a >= b THEN a ELSE b

Range(s) == {s[i] : i \in 1..Len(s)}

RECURSIVE Flatten(_)
Flatten(ss) == IF ss = <<>> THEN <<>> ELSE Head(ss) \o Flatten(Tail(ss))

\* rest.scaler(alpha): constant, rising or falling with alpha, by object.
scaler(rest, alpha) ==
  CASE rest.n % 3 = 0 -> AlphaSteps
    [] rest.n % 3 = 1 -> alpha
    [] OTHER -> AlphaSteps - alpha

\* rest.ramp(timestep): constant or growing with the timestep, by object.
ramp(rest, timestep) == IF rest.n % 2 = 0 THEN 1 ELSE timestep + (rest.n % 3)

atom_index(rest, j) == 10 * rest.n + j

k(rest) == 2 + rest.n

asymptote(rest) == 7 + rest.n

scale_factor(rest) == 3 + rest.n

\* r1(alpha) .. r4(alpha) of a DistanceRestraint are functions of alpha.
r_of_alpha(rest, j, alpha) == 20 * j + rest.n + j * alpha

\* r1 .. r4 of a HyperbolicDistanceRestraint are plain numbers.
r_plain(rest, j) == 20 * j + rest.n

phi(rest) == 90 + rest.n

delta_phi(rest) == 30 + rest.n

r_min(rest) == rest.n

r_max(rest) == 50 + rest.n

n_bins(rest) == 1 + (rest.n % 2)

\* spline_params[:, c]: column c of the coefficient table, one entry per bin.
spline_col(rest, c) == [b \in 1..n_bins(rest) |-> 1000 * rest.n + 20 * b + c]

n_distances(rest) == 2 + (rest.n % 2)

n_components(rest) == 1 + (rest.n % 2)

gmm_atoms(rest) == [a \in 1..(2 * n_distances(rest)) |-> 10 * rest.n + a]

weights(rest) == [c \in 1..n_components(rest) |-> rest.n + c]

\* means.flatten(): component major, then distance.
means_flat(rest) ==
  Flatten([c \in 1..n_components(rest) |->
             [d \in 1..n_distances(rest) |-> 100 * rest.n + 10 * c + d]])

\* precisions[c, j, k] (0-based indices), a symmetric matrix per component;
\* some objects have a zero entry on the diagonal.
precisions(rest) ==
  [c \in 0..(n_components(rest) - 1) |->
     [j \in 0..(n_distances(rest) - 1) |->
        [kk \in 0..(n_distances(rest) - 1) |->
           1000 * (rest.n % 2) + 100 * c + 10 * Min(j, kk) + Max(j, kk)]]]

\* ------------------------------------------------------ _setup_precisions
RECURSIVE diag_loop(_, _, _, _, _)
diag_loop(prec, n_dist, n_cond, i, j) ==
  IF i >= n_cond THEN <<>>
  ELSE IF j >= n_dist THEN diag_loop(prec, n_dist, n_cond, i + 1, 0)
  ELSE <<prec[i][j][j]>> \o diag_loop(prec, n_dist, n_cond, i, j + 1)

RECURSIVE off_diag_loop_from_j(_, _, _, _, _, _)
off_diag_loop_from_j(prec, n_dist, n_cond, i, j, kk) ==
  IF i >= n_cond THEN <<>>
  ELSE IF j >= n_dist THEN off_diag_loop_from_j(prec, n_dist, n_cond, i + 1, 0, 0)
  ELSE IF kk >= n_dist
    THEN off_diag_loop_from_j(prec, n_dist, n_cond, i, j + 1, j + 1)
  ELSE <<prec[i][j][kk]>> \o off_diag_loop_from_j(prec, n_dist, n_cond, i, j, kk + 1)

RECURSIVE off_diag_loop(_, _, _, _, _, _)
off_diag_loop(prec, n_dist, n_cond, i, j, kk) ==
  IF i >= n_cond THEN <<>>
  ELSE IF j >= n_dist THEN off_diag_loop(prec, n_dist, n_cond, i + 1, 0, 1)
  ELSE IF kk >= n_dist THEN off_diag_loop(prec, n_dist, n_cond, i, j + 1, j + 2)
  ELSE <<prec[i][j][kk]>> \o off_diag_loop(prec, n_dist, n_cond, i, j, kk + 1)

setup_precisions(prec, n_dist, n_cond) ==
  [diags |-> diag_loop(prec, n_dist, n_cond, 0, 0),
   off_diags |-> off_diag_loop(prec, n_dist, n_cond, 0, 0, 1)]

\* -------------------------------------- parameter lists of creation calls
\* scale = rest.scaler(alpha) * rest.ramp(timestep)
scale_add(rest, alpha, timestep) == scaler(rest, alpha) * ramp(rest, timestep)

DistanceAddArgs(rest, alpha, timestep) ==
  <<atom_index(rest, 1), atom_index(rest, 2),
    r_of_alpha(rest, 1, alpha), r_of_alpha(rest, 2, alpha),
    r_of_alpha(rest, 3, alpha), r_of_alpha(rest, 4, alpha),
    k(rest) * scale_add(rest, alpha, timestep)>>

HyperbolicAddArgs(rest, alpha, timestep) ==
  <<atom_index(rest, 1), atom_index(rest, 2),
    r_plain(rest, 1), r_plain(rest, 2), r_plain(rest, 3), r_plain(rest, 4),
    k(rest) * scale_add(rest, alpha, timestep),
    asymptote(rest) * scale_add(rest, alpha, timestep)>>

TorsionAddArgs(rest, alpha, timestep) ==
  <<atom_index(rest, 1), atom_index(rest, 2), atom_index(rest, 3),
    atom_index(rest, 4), phi(rest), delta_phi(rest),
    k(rest) * scale_add(rest, alpha, timestep)>>

DistProfileAddArgs(rest, alpha, timestep) ==
  <<atom_index(rest, 1), atom_index(rest, 2), r_min(rest), r_max(rest),
    n_bins(rest),
    spline_col(rest, 0), spline_col(rest, 1), spline_col(rest, 2),
    spline_col(rest, 3),
    scale_factor(rest) * scale_add(rest, alpha, timestep)>>

TorsProfileAddArgs(rest, alpha, timestep) ==
  <<atom_index(rest, 1), atom_index(rest, 2), atom_index(rest, 3),
    atom_index(rest, 4), atom_index(rest, 5), atom_index(rest, 6),
    atom_index(rest, 7), atom_index(rest, 8), n_bins(rest),
    spline_col(rest, 0), spline_col(rest, 1), spline_col(rest, 2),
    spline_col(rest, 3), spline_col(rest, 4), spline_col(rest, 5),
    spline_col(rest, 6), spline_col(rest, 7), spline_col(rest, 8),
    spline_col(rest, 9), spline_col(rest, 10), spline_col(rest, 11),
    spline_col(rest, 12), spline_col(rest, 13), spline_col(rest, 14),
    spline_col(rest, 15),
    scale_factor(rest) * scale_add(rest, alpha, timestep)>>

GMMAddArgs(rest, alpha, timestep) ==
  LET nd == n_distances(rest)
      nc == n_components(rest)
      p == setup_precisions(precisions(rest), nd, nc)
  IN <<nd, nc, scale_add(rest, alpha, timestep), gmm_atoms(rest),
       weights(rest), means_flat(rest), p.diags, p.off_diags>>

\* ---------------------------------------- parameter lists of modify calls
scale_update_without_ramp(rest, alpha, timestep) == scaler(rest, alpha)

\* scale = rest.scaler(alpha) * rest.ramp(timestep), per loop of _update_restraints
scale_update(rest, alpha, timestep) == scaler(rest, alpha) * ramp(rest, timestep)

DistanceModifyArgs(i, rest, alpha, timestep) ==
  <<i, atom_index(rest, 1), atom_index(rest, 2),
    r_of_alpha(rest, 1, alpha), r_of_alpha(rest, 2, alpha),
    r_of_alpha(rest, 3, alpha), r_of_alpha(rest, 4, alpha),
    k(rest) * scale_update(rest, alpha, timestep)>>

HyperbolicModifyArgsSwapped(i, rest, alpha, timestep) ==
  <<i, atom_index(rest, 1), atom_index(rest, 2),
    r_plain(rest, 1), r_plain(rest, 2), r_plain(rest, 3), r_plain(rest, 4),
    asymptote(rest) * scale_update(rest, alpha, timestep),
    k(rest) * scale_update(rest, alpha, timestep)>>

HyperbolicModifyArgs(i, rest, alpha, timestep) ==
  <<i, atom_index(rest, 1), atom_index(rest, 2),
    r_plain(rest, 1), r_plain(rest, 2), r_plain(rest, 3), r_plain(rest, 4),
    k(rest) * scale_update(rest, alpha, timestep),
    asymptote(rest) * scale_update(rest, alpha, timestep)>>

TorsionModifyArgs(i, rest, alpha, timestep) ==
  <<i, atom_index(rest, 1), atom_index(rest, 2), atom_index(rest, 3),
    atom_index(rest, 4), phi(rest), delta_phi(rest),
    k(rest) * scale_update(rest, alpha, timestep)>>

DistProfileModifyArgs(i, rest, alpha, timestep) ==
  <<i, atom_index(rest, 1), atom_index(rest, 2), r_min(rest), r_max(rest),
    n_bins(rest),
    spline_col(rest, 0), spline_col(rest, 1), spline_col(rest, 2),
    spline_col(rest, 3),
    scale_factor(rest) * scale_update(rest, alpha, timestep)>>

TorsProfileModifyArgs(i, rest, alpha, timestep) ==
  <<i, atom_index(rest, 1), atom_index(rest, 2), atom_index(rest, 3),
    atom_index(rest, 4), atom_index(rest, 5), atom_index(rest, 6),
    atom_index(rest, 7), atom_index(rest, 8), n_bins(rest),
    spline_col(rest, 0), spline_col(rest, 1), spline_col(rest, 2),
    spline_col(rest, 3), spline_col(rest, 4), spline_col(rest, 5),
    spline_col(rest, 6), spline_col(rest, 7), spline_col(rest, 8),
    spline_col(rest, 9), spline_col(rest, 10), spline_col(rest, 11),
    spline_col(rest, 12), spline_col(rest, 13), spline_col(rest, 14),
    spline_col(rest, 15),
    scale_factor(rest) * scale_update(rest, alpha, timestep)>>

GMMModifyArgs(i, rest, alpha, timestep) ==
  LET nd == n_distances(rest)
      nc == n_components(rest)
      p == setup_precisions(precisions(rest), nd, nc)
  IN <<i, nd, nc, scale_update(rest, alpha, timestep), gmm_atoms(rest),
       weights(rest), means_flat(rest), p.diags, p.off_diags>>

\* ------------------------------------------------------------------ state
VARIABLES
  always_active_restraints,      \* the caller's list, after construction
  selectively_active_restraints, \* the caller's list, after construction
  always_on,                     \* self.always_on
  selective_on,                  \* self.selective_on
  active,                        \* self.active
  tracker,                       \* self.tracker
  force,                         \* self.force (set = FALSE: attribute not assigned)
  system_forces,                 \* number of forces added to the system
  calls,                         \* engine calls issued by the last operation
  last,                          \* the last operation, its inputs and its outcome
  regs                           \* number of add_interactions calls so far

vars ==
  <<always_active_restraints, selectively_active_restraints, always_on,
    selective_on, active, tracker, force, system_forces, calls, last, regs>>

\* None in tracker.groups / tracker.collections; a tracked group is the
\* reference <<ci, gi>> to selective_on[ci].groups[gi], a tracked collection
\* the reference <<ci>>.
None == <<>>

\* _RestraintTracker.__init__
NewTracker ==
  [distance_restraints |-> <<>>,
   hyperbolic_distance_restraints |-> <<>>,
   torsion_restraints |-> <<>>,
   dist_prof_restraints |-> <<>>,
   torsion_profile_restraints |-> <<>>,
   gmm_restraints |-> <<>>,
   groups |-> <<>>,
   collections |-> <<>>]

\* ------------------------------------------------------- the engine object
\* MeldForce(): per kind the parameter list each restraint holds, the groups
\* and the collections.  A creation call returns the index of the new entity:
\* restraints are numbered across kinds, modify calls address a restraint by
\* its position within its kind.
NewForce ==
  [set |-> TRUE,
   rests |-> [kd \in KnownKinds |-> <<>>],
   n_restraints |-> 0,
   groups |-> <<>>,
   collections |-> <<>>]

NoForce == [NewForce EXCEPT !.set = FALSE]

Call(op, args) == [op |-> op, args |-> args]

\* meld_force.add<Kind>Restraint(args): returns the new restraint's index.
EngineAddRestraint(acc, kind, op, args) ==
  [acc EXCEPT !.force.rests[kind] = Append(@, args),
              !.force.n_restraints = @ + 1,
              !.calls = Append(@, Call(op, args)),
              !.ret = acc.force.n_restraints]

\* meld_force.addGroup(restraint_indices, num_active)
EngineAddGroup(acc, members, num_active) ==
  [acc EXCEPT !.force.groups =
                Append(@, [members |-> members, num_active |-> num_active]),
              !.calls = Append(@, Call("addGroup", <<members, num_active>>)),
              !.ret = Len(acc.force.groups)]

\* meld_force.addCollection(group_indices, num_active)
EngineAddCollection(acc, members, num_active) ==
  [acc EXCEPT !.force.collections =
                Append(@, [members |-> members, num_active |-> num_active]),
              !.calls = Append(@, Call("addCollection", <<members, num_active>>)),
              !.ret = Len(acc.force.collections)]

\* ---------------------------------------------------- _handle_num_active
\* A num_active selector: a literal (param = FALSE, v the integer) or a
\* sampled parameter (param = TRUE, v its index in state.parameters).
Literal(v) == [param |-> FALSE, v |-> v]

Parameter(index) == [param |-> TRUE, v |-> index]

\* param_manager.extract_value(value, state.parameters), in tenths.
extract_value(value, parameters) == parameters[value.v]

\* int(x) of a number held in tenths: truncation toward zero.
int(tenths) == IF tenths >= 0 THEN tenths \div 10 ELSE -((-tenths) \div 10)

handle_num_active_rounded(value, state) ==
  IF value.param
    THEN (extract_value(value, state.parameters) + 5) \div 10
    ELSE value.v

handle_num_active(value, state) ==
  IF value.param
    THEN int(extract_value(value, state.parameters))
    ELSE value.v

\* ---------------------------------------------------- _add_meld_restraint
Raise(acc) == [acc EXCEPT !.raised = TRUE]

TrackerAppendFront(acc, field, item) ==
  [acc EXCEPT !.tracker[field] = <<item>> \o @]

\* tracker.<field>.append(item)
TrackerAppend(acc, field, item) == [acc EXCEPT !.tracker[field] = Append(@, item)]

ignore_unknown_restraint(acc) == acc

\* raise RuntimeError(f"Do not know how to handle restraint {rest}")
raise_unknown_restraint(acc) == [acc EXCEPT !.raised = TRUE]

add_meld_restraint(acc, rest, alpha, timestep) ==
  IF rest.kind = "Distance" THEN
    TrackerAppend(
      EngineAddRestraint(acc, "Distance", "addDistanceRestraint",
                         DistanceAddArgs(rest, alpha, timestep)),
      "distance_restraints", rest)
  ELSE IF rest.kind = "HyperbolicDistance" THEN
    TrackerAppend(
      EngineAddRestraint(acc, "HyperbolicDistance",
                         "addHyperbolicDistanceRestraint",
                         HyperbolicAddArgs(rest, alpha, timestep)),
      "hyperbolic_distance_restraints", rest)
  ELSE IF rest.kind = "Torsion" THEN
    TrackerAppend(
      EngineAddRestraint(acc, "Torsion", "addTorsionRestraint",
                         TorsionAddArgs(rest, alpha, timestep)),
      "torsion_restraints", rest)
  ELSE IF rest.kind = "DistProfile" THEN
    TrackerAppend(
      EngineAddRestraint(acc, "DistProfile", "addDistProfileRestraint",
                         DistProfileAddArgs(rest, alpha, timestep)),
      "dist_prof_restraints", rest)
  ELSE IF rest.kind = "TorsProfile" THEN
    TrackerAppend(
      EngineAddRestraint(acc, "TorsProfile", "addTorsProfileRestraint",
                         TorsProfileAddArgs(rest, alpha, timestep)),
      "torsion_profile_restraints", rest)
  ELSE IF rest.kind = "GMMDistance" THEN
    TrackerAppend(
      EngineAddRestraint(acc, "GMMDistance", "addGMMRestraint",
                         GMMAddArgs(rest, alpha, timestep)),
      "gmm_restraints", rest)
  ELSE raise_unknown_restraint(acc)

\* ------------------------------------------------------- add_interactions
track_sentinel_group_forgotten(acc) == acc

\* self.tracker.groups.append(None)
track_sentinel_group(acc) == TrackerAppend(acc, "groups", None)

\* for rest in self.always_on: ... (lines 109-119); group_list travels in
\* acc.list.
RECURSIVE always_loop(_, _, _)
always_loop(acc, rests, i) ==
  IF acc.raised \/ i > Len(rests) THEN acc
  ELSE LET a1 == add_meld_restraint(acc, rests[i], 0, 0)
       IN IF a1.raised THEN a1
          ELSE LET a2 == EngineAddGroup(a1, <<a1.ret>>, 1)
                   a3 == [a2 EXCEPT !.list = Append(@, a2.ret)]
               IN always_loop(track_sentinel_group(a3), rests, i + 1)

add_always_on_untracked(acc, rests) ==
  IF rests = <<>> THEN acc
  ELSE LET a1 == always_loop([acc EXCEPT !.list = <<>>], rests, 1)
       IN IF a1.raised THEN a1
          ELSE EngineAddCollection(a1, a1.list, Len(a1.list))

add_always_on_one_active(acc, rests) ==
  IF rests = <<>> THEN acc
  ELSE LET a1 == always_loop([acc EXCEPT !.list = <<>>], rests, 1)
       IN IF a1.raised THEN a1
          ELSE TrackerAppend(EngineAddCollection(a1, a1.list, 1),
                             "collections", None)

\* if self.always_on: ... (lines 107-126)
add_always_on(acc, rests) ==
  IF rests = <<>> THEN acc
  ELSE LET a1 == always_loop([acc EXCEPT !.list = <<>>], rests, 1)
       IN IF a1.raised THEN a1
          ELSE TrackerAppend(EngineAddCollection(a1, a1.list, Len(a1.list)),
                             "collections", None)

\* for rest in group.restraints: ... (lines 133-137); restraint_indices
\* travels in acc.list.
RECURSIVE restraint_loop(_, _, _)
restraint_loop(acc, rests, j) ==
  IF acc.raised \/ j > Len(rests) THEN acc
  ELSE LET a1 == add_meld_restraint(acc, rests[j], 0, 0)
       IN IF a1.raised THEN a1
          ELSE restraint_loop([a1 EXCEPT !.list = Append(@, a1.ret)], rests, j + 1)

group_num_active_source_of_collection(coll, gi) == coll.num_active

\* The value handed to _handle_num_active on line 140: group.num_active of
\* the group the loop is at.
group_num_active_source(coll, gi) == coll.groups[gi].num_active

\* restraint_indices set up once per collection, not once per group.
RECURSIVE group_loop_shared_list(_, _, _, _, _)
group_loop_shared_list(acc, coll, ci, gi, state) ==
  IF acc.raised \/ gi > Len(coll.groups) THEN acc
  ELSE LET group == coll.groups[gi]
           a0 == IF gi = 1 THEN [acc EXCEPT !.list = <<>>] ELSE acc
           a1 == restraint_loop(a0, group.restraints, 1)
       IN IF a1.raised THEN a1
          ELSE LET group_num_active ==
                     handle_num_active(group_num_active_source(coll, gi), state)
                   a2 == EngineAddGroup(a1, a1.list, group_num_active)
                   a3 == [a2 EXCEPT !.glist = Append(@, a2.ret)]
               IN group_loop_shared_list(TrackerAppend(a3, "groups", <<ci, gi>>),
                                         coll, ci, gi + 1, state)

\* for group in coll.groups: ... (lines 131-147); group_indices travels in
\* acc.glist.
RECURSIVE group_loop(_, _, _, _, _)
group_loop(acc, coll, ci, gi, state) ==
  IF acc.raised \/ gi > Len(coll.groups) THEN acc
  ELSE LET group == coll.groups[gi]
           a1 == restraint_loop([acc EXCEPT !.list = <<>>], group.restraints, 1)
       IN IF a1.raised THEN a1
          ELSE LET group_num_active ==
                     handle_num_active(group_num_active_source(coll, gi), state)
                   a2 == EngineAddGroup(a1, a1.list, group_num_active)
                   a3 == [a2 EXCEPT !.glist = Append(@, a2.ret)]
               IN group_loop(TrackerAppend(a3, "groups", <<ci, gi>>),
                             coll, ci, gi + 1, state)

\* The value handed to _handle_num_active on line 150: the loop variable
\* `group` still bound after the loop over coll.groups, i.e. its last group
\* (a SelectivelyActiveCollection has at least one group).
coll_num_active_source(coll) == coll.groups[Len(coll.groups)].num_active

\* for coll in self.selective_on: ... (lines 129-154)
RECURSIVE coll_loop(_, _, _, _)
coll_loop(acc, colls, ci, state) ==
  IF acc.raised \/ ci > Len(colls) THEN acc
  ELSE LET coll == colls[ci]
           a1 == group_loop([acc EXCEPT !.glist = <<>>], coll, ci, 1, state)
       IN IF a1.raised THEN a1
          ELSE LET coll_num_active ==
                     handle_num_active(coll_num_active_source(coll), state)
                   a2 == EngineAddCollection(a1, a1.glist, coll_num_active)
               IN coll_loop(TrackerAppend(a2, "collections", <<ci>>),
                            colls, ci + 1, state)

\* Registration that starts from an empty tracker each time.
register_all_fresh_tracker(trk, always, selective, state) ==
  LET acc0 == [tracker |-> NewTracker, force |-> NewForce, calls |-> <<>>,
               raised |-> FALSE, ret |-> 0, list |-> <<>>, glist |-> <<>>]
  IN coll_loop(add_always_on(acc0, always), selective, 1, state)

\* The body of `if self.active:` up to (not including) system.addForce.
register_all(trk, always, selective, state) ==
  LET acc0 == [tracker |-> trk, force |-> NewForce, calls |-> <<>>,
               raised |-> FALSE, ret |-> 0, list |-> <<>>, glist |-> <<>>]
  IN coll_loop(add_always_on(acc0, always), selective, 1, state)

\* ----------------------------------------------------------------- update
\* How the engine answers a modify call whose index it never created (only
\* possible after a second add_interactions): every such call fails
\* ("raise"), every such call returns without touching any entity the model
\* tracks ("ignore"), or the restraint calls return and the num_active calls
\* fail ("raise_counts").
EngineFaults == {"raise", "ignore", "raise_counts"}

OutOfRange(u, fails) == IF fails THEN Raise(u) ELSE u

\* self.force.modify<Kind>Restraint(i, args...); args[1] is the index i.
EngineModifyRestraint(u, kind, op, args, oob) ==
  LET logged == [u EXCEPT !.calls = Append(@, Call(op, args))]
  IN IF args[1] < Len(u.force.rests[kind])
       THEN [logged EXCEPT !.force.rests[kind][args[1] + 1] = Tail(args)]
       ELSE OutOfRange(logged, oob = "raise")

\* self.force.modifyGroupNumActive(i, num_active)
EngineModifyGroup(u, i, num_active, oob) ==
  LET logged ==
        [u EXCEPT !.calls = Append(@, Call("modifyGroupNumActive", <<i, num_active>>))]
  IN IF i < Len(u.force.groups)
       THEN [logged EXCEPT !.force.groups[i + 1].num_active = num_active]
       ELSE OutOfRange(logged, oob # "ignore")

\* self.force.modifyCollectionNumActive(i, num_active)
EngineModifyCollection(u, i, num_active, oob) ==
  LET logged ==
        [u EXCEPT !.calls =
                    Append(@, Call("modifyCollectionNumActive", <<i, num_active>>))]
  IN IF i < Len(u.force.collections)
       THEN [logged EXCEPT !.force.collections[i + 1].num_active = num_active]
       ELSE OutOfRange(logged, oob # "ignore")

\* One `for i, rest in enumerate(self.tracker.<kind>)` loop of
\* _update_restraints; argsList[j] is the parameter list of iteration j - 1.
\* Reading self.force fails when the attribute was never assigned.
RECURSIVE modify_loop(_, _, _, _, _, _)
modify_loop(u, kind, op, argsList, j, oob) ==
  IF u.raised \/ j > Len(argsList) THEN u
  ELSE IF ~u.force.set THEN Raise(u)
  ELSE modify_loop(EngineModifyRestraint(u, kind, op, argsList[j], oob),
                   kind, op, argsList, j + 1, oob)

update_restraints(u, trk, alpha, timestep, oob) ==
  LET d == trk.distance_restraints
      h == trk.hyperbolic_distance_restraints
      t == trk.torsion_restraints
      dp == trk.dist_prof_restraints
      tp == trk.torsion_profile_restraints
      g == trk.gmm_restraints
      u1 == modify_loop(u, "Distance", "modifyDistanceRestraint",
              [j \in 1..Len(d) |-> DistanceModifyArgs(j - 1, d[j], alpha, timestep)],
              1, oob)
      u2 == modify_loop(u1, "HyperbolicDistance", "modifyHyperbolicDistanceRestraint",
              [j \in 1..Len(h) |-> HyperbolicModifyArgs(j - 1, h[j], alpha, timestep)],
              1, oob)
      u3 == modify_loop(u2, "Torsion", "modifyTorsionRestraint",
              [j \in 1..Len(t) |-> TorsionModifyArgs(j - 1, t[j], alpha, timestep)],
              1, oob)
      u4 == modify_loop(u3, "DistProfile", "modifyDistProfileRestraint",
              [j \in 1..Len(dp) |-> DistProfileModifyArgs(j - 1, dp[j], alpha, timestep)],
              1, oob)
      u5 == modify_loop(u4, "TorsProfile", "modifyTorsProfileRestraint",
              [j \in 1..Len(tp) |-> TorsProfileModifyArgs(j - 1, tp[j], alpha, timestep)],
              1, oob)
  IN modify_loop(u5, "GMMDistance", "modifyGMMRestraint",
       [j \in 1..Len(g) |-> GMMModifyArgs(j - 1, g[j], alpha, timestep)],
       1, oob)

\* for i, coll in enumerate(self.tracker.collections): ... (lines 176-180)
RECURSIVE update_collections(_, _, _, _, _, _)
update_collections(u, entries, colls, j, state, oob) ==
  IF u.raised \/ j > Len(entries) THEN u
  ELSE IF entries[j] = None
    THEN update_collections(u, entries, colls, j + 1, state, oob)
  ELSE LET coll == colls[entries[j][1]]
           num_active == handle_num_active(coll.num_active, state)
       IN IF ~u.force.set THEN Raise(u)
          ELSE update_collections(EngineModifyCollection(u, j - 1, num_active, oob),
                                  entries, colls, j + 1, state, oob)

\* for i, group in enumerate(self.tracker.groups): ... (lines 182-186)
RECURSIVE update_groups(_, _, _, _, _, _)
update_groups(u, entries, colls, j, state, oob) ==
  IF u.raised \/ j > Len(entries) THEN u
  ELSE IF entries[j] = None
    THEN update_groups(u, entries, colls, j + 1, state, oob)
  ELSE LET group == colls[entries[j][1]].groups[entries[j][2]]
           num_active == handle_num_active(group.num_active, state)
       IN IF ~u.force.set THEN Raise(u)
          ELSE update_groups(EngineModifyGroup(u, j - 1, num_active, oob),
                             entries, colls, j + 1, state, oob)

update_groups_collections_groups_only(u, trk, colls, state, oob) ==
  update_groups(u, trk.groups, colls, 1, state, oob)

update_groups_collections(u, trk, colls, state, oob) ==
  update_groups(update_collections(u, trk.collections, colls, 1, state, oob),
                trk.groups, colls, 1, state, oob)

\* As if the force attribute always held an engine object.
update_parameters_in_context_unchecked(u) ==
  IF u.raised THEN u
  ELSE [u EXCEPT !.calls = Append(@, Call("updateParametersInContext", <<>>))]

update_parameters_in_context_regardless(u) ==
  IF ~u.force.set THEN Raise(u)
  ELSE [u EXCEPT !.calls = Append(@, Call("updateParametersInContext", <<>>))]

\* self.force.updateParametersInContext(simulation.context)
update_parameters_in_context(u) ==
  IF u.raised THEN u
  ELSE IF ~u.force.set THEN Raise(u)
  ELSE [u EXCEPT !.calls = Append(@, Call("updateParametersInContext", <<>>))]

update_all_recompute_first(frc, trk, colls, state, alpha, timestep, oob) ==
  LET u0 == [force |-> frc, calls |-> <<>>, raised |-> FALSE]
  IN update_groups_collections(
       update_restraints(update_parameters_in_context(u0), trk, alpha,
                         timestep, oob),
       trk, colls, state, oob)

\* The body of `if self.active:` in update.
update_all(frc, trk, colls, state, alpha, timestep, oob) ==
  LET u0 == [force |-> frc, calls |-> <<>>, raised |-> FALSE]
  IN update_parameters_in_context(
       update_groups_collections(
         update_restraints(u0, trk, alpha, timestep, oob),
         trk, colls, state, oob))

\* ---------------------------------------------------------------- inputs
\* Kinds of the restraints of one configuration: two or three kinds, which
\* the restraints take in turn by their place.
KindPatterns ==
  {<<"Distance", "Torsion">>, <<"HyperbolicDistance", "GMMDistance">>,
   <<"DistProfile", "TorsProfile">>,
   <<"Torsion", "Distance", OtherKind>>, <<OtherKind, "Distance">>}

SlotKind(pat, s) == pat[(s % Len(pat)) + 1]

\* How num_active is given: the literal 1, the literal member count, or a
\* sampled parameter.  The groups of a collection take the two modes of a
\* pattern in turn, the collection takes the second.
NumActivePatterns == {<<"one", "all">>, <<"param", "one">>, <<"all", "param">>}

NumActive(mode, count) ==
  CASE mode = "one" -> Literal(1)
    [] mode = "all" -> Literal(count)
    [] OTHER -> Parameter(1)

\* A collection shape is the sequence of its groups' sizes; the collections
\* of one configuration have the same number of groups, the groups the same
\* number of restraints.
Shape(nc, ng, nr) == [ci \in 1..nc |-> [gi \in 1..ng |-> nr]]

\* No collection; one to MaxColls collections of one singleton group; one
\* collection of up to MaxGroups singleton groups; one collection of one
\* group of up to MaxRests restraints; and everything at its largest.
SelectiveShapes ==
  {<<>>, Shape(MaxColls, MaxGroups, MaxRests)}
    \cup {Shape(nc, 1, 1) : nc \in 1..MaxColls}
    \cup {Shape(1, ng, 1) : ng \in 1..MaxGroups}
    \cup {Shape(1, 1, nr) : nr \in 1..MaxRests}

AlwaysRestraint(pat, i) == [kind |-> SlotKind(pat, i), n |-> i]

SelectiveRestraint(pat, ci, gi, ri) ==
  [kind |-> SlotKind(pat, ci + gi + ri),
   n |-> MaxAlways + ((ci - 1) * MaxGroups + (gi - 1)) * MaxRests + ri]

MakeGroup(pat, na, ci, gi, size) ==
  [restraints |-> [ri \in 1..size |-> SelectiveRestraint(pat, ci, gi, ri)],
   num_active |-> NumActive(na[2 - (gi % 2)], size)]

MakeCollection(pat, na, ci, shape) ==
  [groups |-> [gi \in 1..Len(shape) |-> MakeGroup(pat, na, ci, gi, shape[gi])],
   num_active |-> NumActive(na[2], Len(shape))]

\* Number of selectable restraints in the caller's always-active list: none,
\* one, or as many as the bound allows.
AlwaysCounts == {0, 1, MaxAlways}

\* The lists the caller hands to the constructor.  The always-active list
\* starts with one restraint that is not selectable.
CallerAlways(pat, nAlways) ==
  <<[kind |-> NonSelectableKind, n |-> 0]>>
    \o [i \in 1..nAlways |-> AlwaysRestraint(pat, i)]

CallerSelective(pat, na, shapes) ==
  [ci \in 1..Len(shapes) |-> MakeCollection(pat, na, ci, shapes[ci])]

\* Sampled parameter values, in tenths.
ParamValues == {9, 27}

States == {[parameters |-> <<v>>] : v \in ParamValues}

\* The simulation state an update is given at (alpha, timestep): the sampled
\* parameter moves from step to step.
StateAt(alpha, timestep) ==
  [parameters |-> <<IF (alpha + timestep) % 2 = 0 THEN 9 ELSE 27>>]

\* ----------------------------------------------------------- constructor
\* isinstance(r, restraints.SelectableRestraint)
is_selectable(r) == r.kind \in SelectableKinds

\* self.always_on = [r for r in always_active_restraints if isinstance(...)]
claim_always_on(input) == SelectSeq(input, is_selectable)

\* _delete_from_always_active(self.always_on, always_active_restraints)
delete_from_always_active(claimed, list) ==
  LET unclaimed(r) == r \notin Range(claimed) IN SelectSeq(list, unclaimed)

\* list.remove(r): drops the first entry equal to r.
RECURSIVE list_remove(_, _)
list_remove(list, r) ==
  IF list = <<>> THEN <<>>
  ELSE IF Head(list) = r THEN Tail(list)
  ELSE <<Head(list)>> \o list_remove(Tail(list), r)

\* The loop run over the list it shrinks, not over the copy.
RECURSIVE remove_all_while_iterating(_, _, _)
remove_all_while_iterating(list, claimed, j) ==
  IF j > Len(list) THEN list
  ELSE remove_all_while_iterating(list_remove(list, list[j]), claimed, j + 1)

\* for r in self.selective_on: selectively_active_restraints.remove(r)
RECURSIVE remove_all(_, _, _)
remove_all(list, claimed, j) ==
  IF j > Len(claimed) THEN list
  ELSE remove_all(list_remove(list, claimed[j]), claimed, j + 1)

\* __init__: the state right after construction.
Constructed(callerAlways, callerSelective) ==
  /\ always_on = claim_always_on(callerAlways)
  /\ always_active_restraints =
       delete_from_always_active(claim_always_on(callerAlways), callerAlways)
  /\ selective_on = callerSelective
  /\ selectively_active_restraints =
       remove_all(callerSelective, callerSelective, 1)
  /\ active = (claim_always_on(callerAlways) # <<>> \/ callerSelective # <<>>)
  /\ tracker = NewTracker
  /\ force = NoForce

NoState == [parameters |-> <<>>]

Init ==
  /\ \E pat \in KindPatterns, na \in NumActivePatterns,
        nAlways \in AlwaysCounts, shapes \in SelectiveShapes :
       Constructed(CallerAlways(pat, nAlways), CallerSelective(pat, na, shapes))
  /\ system_forces = 0
  /\ calls = <<>>
  /\ last = [op |-> "init", state |-> NoState, alpha |-> 0, timestep |-> 0,
             raised |-> FALSE]
  /\ regs = 0

\* ---------------------------------------------------------------- actions
AddInteractionsUnguarded(state) ==
  /\ regs < MaxRegs
  /\ regs' = regs + 1
  /\ \E r \in {register_all(tracker, always_on, selective_on, state)} :
       /\ tracker' = r.tracker
       /\ calls' = r.calls
       /\ force' = IF r.raised THEN force ELSE r.force
       /\ system_forces' = IF r.raised THEN system_forces ELSE system_forces + 1
       /\ last' = [op |-> "add_interactions", state |-> state,
                   alpha |-> 0, timestep |-> 0, raised |-> r.raised]
  /\ UNCHANGED <<always_active_restraints, selectively_active_restraints,
                 always_on, selective_on, active>>

\* add_interactions(state, system, topology)
AddInteractions(state) ==
  /\ regs < MaxRegs
  /\ regs' = regs + 1
  /\ IF active
       THEN \E r \in {register_all(tracker, always_on, selective_on, state)} :
               /\ tracker' = r.tracker
               /\ calls' = r.calls
               /\ force' = IF r.raised THEN force ELSE r.force
               /\ system_forces' = IF r.raised THEN system_forces
                                   ELSE system_forces + 1
               /\ last' = [op |-> "add_interactions", state |-> state,
                           alpha |-> 0, timestep |-> 0, raised |-> r.raised]
       ELSE /\ calls' = <<>>
            /\ last' = [op |-> "add_interactions", state |-> state,
                        alpha |-> 0, timestep |-> 0, raised |-> FALSE]
            /\ UNCHANGED <<tracker, force, system_forces>>
  /\ UNCHANGED <<always_active_restraints, selectively_active_restraints,
                 always_on, selective_on, active>>

\* The refresh done through the registration helper instead of the modify
\* calls.
UpdateByRegistering(state, alpha, timestep, oob) ==
  /\ IF active
       THEN \E r \in {register_all(tracker, always_on, selective_on, state)} :
               /\ tracker' = r.tracker
               /\ calls' = r.calls
               /\ force' = force
               /\ last' = [op |-> "update", state |-> state, alpha |-> alpha,
                           timestep |-> timestep, raised |-> r.raised]
       ELSE /\ calls' = <<>>
            /\ last' = [op |-> "update", state |-> state, alpha |-> alpha,
                        timestep |-> timestep, raised |-> FALSE]
            /\ UNCHANGED <<force, tracker>>
  /\ UNCHANGED <<always_active_restraints, selectively_active_restraints,
                 always_on, selective_on, active, system_forces, regs>>

\* update(state, simulation, alpha, timestep)
Update(state, alpha, timestep, oob) ==
  /\ IF active
       THEN \E u \in {update_all(force, tracker, selective_on, state, alpha,
                                timestep, oob)} :
               /\ force' = u.force
               /\ calls' = u.calls
               /\ last' = [op |-> "update", state |-> state, alpha |-> alpha,
                           timestep |-> timestep, raised |-> u.raised]
       ELSE /\ calls' = <<>>
            /\ last' = [op |-> "update", state |-> state, alpha |-> alpha,
                        timestep |-> timestep, raised |-> FALSE]
            /\ UNCHANGED force
  /\ UNCHANGED <<always_active_restraints, selectively_active_restraints,
                 always_on, selective_on, active, tracker, system_forces, regs>>

\* The tracker holds more entries of some category than the force object
\* has entities: a modify call of the next update is out of range.
Stale ==
  /\ force.set
  /\ \/ Len(tracker.distance_restraints) > Len(force.rests["Distance"])
     \/ Len(tracker.hyperbolic_distance_restraints)
          > Len(force.rests["HyperbolicDistance"])
     \/ Len(tracker.torsion_restraints) > Len(force.rests["Torsion"])
     \/ Len(tracker.dist_prof_restraints) > Len(force.rests["DistProfile"])
     \/ Len(tracker.torsion_profile_restraints) > Len(force.rests["TorsProfile"])
     \/ Len(tracker.gmm_restraints) > Len(force.rests["GMMDistance"])
     \/ Len(tracker.groups) > Len(force.groups)
     \/ Len(tracker.collections) > Len(force.collections)

Next ==
  \/ \E state \in States : AddInteractions(state)
  \/ \E alpha \in Alphas, timestep \in Timesteps,
        oob \in IF Stale THEN EngineFaults ELSE {"raise"} :
       Update(StateAt(alpha, timestep), alpha, timestep, oob)

Spec == Init /\ [][Next]_vars

\* ------------------------------------------------- vocabulary of the claims
\* The restraints in registration order: the always-active ones, then the
\* selective collections, groups and restraints in supplied order.
RegistrationOrder ==
  always_on \o
  Flatten([ci \in 1..Len(selective_on) |->
             Flatten([gi \in 1..Len(selective_on[ci].groups) |->
                        selective_on[ci].groups[gi].restraints])])

OfKind(rests, kind) == LET same(r) == r.kind = kind IN SelectSeq(rests, same)

CallsOf(op) == LET same(c) == c.op = op IN SelectSeq(calls, same)

TrackerField(kind) ==
  CASE kind = "Distance" -> "distance_restraints"
    [] kind = "HyperbolicDistance" -> "hyperbolic_distance_restraints"
    [] kind = "Torsion" -> "torsion_restraints"
    [] kind = "DistProfile" -> "dist_prof_restraints"
    [] kind = "TorsProfile" -> "torsion_profile_restraints"
    [] kind = "GMMDistance" -> "gmm_restraints"

AddOp(kind) ==
  CASE kind = "Distance" -> "addDistanceRestraint"
    [] kind = "HyperbolicDistance" -> "addHyperbolicDistanceRestraint"
    [] kind = "Torsion" -> "addTorsionRestraint"
    [] kind = "DistProfile" -> "addDistProfileRestraint"
    [] kind = "TorsProfile" -> "addTorsProfileRestraint"
    [] kind = "GMMDistance" -> "addGMMRestraint"

ModifyOp(kind) ==
  CASE kind = "Distance" -> "modifyDistanceRestraint"
    [] kind = "HyperbolicDistance" -> "modifyHyperbolicDistanceRestraint"
    [] kind = "Torsion" -> "modifyTorsionRestraint"
    [] kind = "DistProfile" -> "modifyDistProfileRestraint"
    [] kind = "TorsProfile" -> "modifyTorsProfileRestraint"
    [] kind = "GMMDistance" -> "modifyGMMRestraint"

\* The identity n of the restraint a parameter list (without index) was
\* computed from: every atom index of restraint n is 10 * n + j.
SourceOfParams(kind, params) ==
  IF kind = "GMMDistance" THEN params[4][1] \div 10 ELSE params[1] \div 10

AddedOnce == active /\ regs = 1 /\ last.op = "add_interactions"

UpdatedAfterOneAdd ==
  active /\ regs = 1 /\ force.set /\ last.op = "update"

\* ------------------------------------------------------------------- C1
\* C1: order preservation.  After one add_interactions on an active
\* transformer, for each of the six kinds the i-th creation call of that kind
\* was computed from the i-th restraint of that kind in registration order and
\* that restraint sits at position i of the kind's tracker sequence; in every
\* later update the modify calls of the kind address the indices 0, 1, ... in
\* order and the call addressed to index i carries the parameters of that same
\* restraint.
OrderPreservation ==
  \A kind \in KnownKinds :
    LET expected == OfKind(RegistrationOrder, kind)
        tracked == tracker[TrackerField(kind)]
        created == CallsOf(AddOp(kind))
        modified == CallsOf(ModifyOp(kind))
    IN /\ AddedOnce =>
            /\ Len(tracked) = Len(created)
            /\ Len(created) <= Len(expected)
            /\ ~last.raised => Len(created) = Len(expected)
            /\ \A i \in 1..Len(created) :
                 /\ tracked[i] = expected[i]
                 /\ SourceOfParams(kind, created[i].args) = expected[i].n
       /\ UpdatedAfterOneAdd =>
            /\ Len(modified) = Len(expected)
            /\ \A i \in 1..Len(modified) :
                 /\ modified[i].args[1] = i - 1
                 /\ tracked[i] = expected[i]
                 /\ SourceOfParams(kind, Tail(modified[i].args)) = expected[i].n

\* Two distance restraints and a torsion restraint between them were
\* registered and then refreshed by an update.
OrderPreservationWitness ==
  /\ UpdatedAfterOneAdd
  /\ ~last.raised
  /\ Len(CallsOf("modifyDistanceRestraint")) >= 2
  /\ Len(CallsOf("modifyTorsionRestraint")) >= 1
  /\ always_on # <<>>

\* ------------------------------------------------------------------- C2
\* The indices the current force object gave to the sentinel entities: the
\* singleton groups of the always-active restraints come first, and so does
\* their collection.
SentinelGroupIndices == 0..(Len(always_on) - 1)

SentinelCollectionIndices == IF always_on = <<>> THEN {} ELSE {0}

\* C2: sentinel immutability.  No update following add_interactions issues
\* modifyGroupNumActive for the index of a singleton group of an always-active
\* restraint or modifyCollectionNumActive for the index of the always-active
\* collection, and the groups and the collection the engine holds for them are
\* the same after the update as before it.
SentinelImmutability ==
  [][(force.set /\ last'.op = "update") =>
       /\ \A i \in 1..Len(calls') :
            /\ calls'[i].op = "modifyGroupNumActive" =>
                 calls'[i].args[1] \notin SentinelGroupIndices
            /\ calls'[i].op = "modifyCollectionNumActive" =>
                 calls'[i].args[1] \notin SentinelCollectionIndices
       /\ \A g \in SentinelGroupIndices : force'.groups[g + 1] = force.groups[g + 1]
       /\ \A c \in SentinelCollectionIndices :
            force'.collections[c + 1] = force.collections[c + 1]]_vars

\* An update has pushed the active count of a selective group while an
\* always-active restraint keeps its singleton group and its collection.
SentinelImmutabilityWitness ==
  /\ UpdatedAfterOneAdd
  /\ ~last.raised
  /\ always_on # <<>>
  /\ Len(CallsOf("modifyGroupNumActive")) >= 1
  /\ Len(CallsOf("modifyCollectionNumActive")) >= 1
  /\ force.groups[1].num_active = 1
  /\ force.collections[1].num_active = Len(always_on)

\* ------------------------------------------------------------------- C3
GroupAt(entry) == selective_on[entry[1]].groups[entry[2]]

CollectionAt(entry) == selective_on[entry[1]]

\* What the tracker should hold, one entry per group / collection in creation
\* order: None for the always-active ones, then the selective ones.
ExpectedGroupEntries ==
  [i \in 1..Len(always_on) |-> None] \o
  Flatten([ci \in 1..Len(selective_on) |->
             [gi \in 1..Len(selective_on[ci].groups) |-> <<ci, gi>>]])

ExpectedCollectionEntries ==
  (IF always_on = <<>> THEN <<>> ELSE <<None>>) \o
  [ci \in 1..Len(selective_on) |-> <<ci>>]

\* Number of restraints registered before the first restraint of group
\* (ci, gi), and number of groups created before the first group of
\* collection ci.
RestraintsBefore(ci, gi) ==
  Len(always_on)
  + Len(Flatten([c \in 1..(ci - 1) |->
                   Flatten([g \in 1..Len(selective_on[c].groups) |->
                              selective_on[c].groups[g].restraints])]))
  + Len(Flatten([g \in 1..(gi - 1) |-> selective_on[ci].groups[g].restraints]))

GroupsBefore(ci) ==
  Len(always_on)
  + Len(Flatten([c \in 1..(ci - 1) |-> selective_on[c].groups]))

\* The member indices the i-th group / collection should have been created
\* with: the indices the engine returned for its own members.
ExpectedGroupMembers(i) ==
  LET entry == ExpectedGroupEntries[i]
  IN IF entry = None THEN <<i - 1>>
     ELSE [r \in 1..Len(GroupAt(entry).restraints) |->
             RestraintsBefore(entry[1], entry[2]) + r - 1]

ExpectedCollectionMembers(i) ==
  LET entry == ExpectedCollectionEntries[i]
  IN IF entry = None THEN [g \in 1..Len(always_on) |-> g - 1]
     ELSE [g \in 1..Len(CollectionAt(entry).groups) |->
             GroupsBefore(entry[1]) + g - 1]

\* C3: group and collection index correspondence.  After one
\* add_interactions the tracker's group sequence has one entry per addGroup
\* call and its collection sequence one entry per addCollection call, in call
\* order, sentinels included; the index i of a modifyGroupNumActive /
\* modifyCollectionNumActive call of a later update is the index of the i-th
\* group / collection created in the engine, and the count pushed is the
\* num_active of that same group / collection.
IndexCorrespondence ==
  LET addedGroups == CallsOf("addGroup")
      addedColls == CallsOf("addCollection")
  IN /\ AddedOnce =>
          /\ Len(tracker.groups) = Len(addedGroups)
          /\ Len(tracker.collections) = Len(addedColls)
          /\ Len(addedGroups) <= Len(ExpectedGroupEntries)
          /\ Len(addedColls) <= Len(ExpectedCollectionEntries)
          /\ \A i \in 1..Len(addedGroups) :
               /\ tracker.groups[i] = ExpectedGroupEntries[i]
               /\ addedGroups[i].args[1] = ExpectedGroupMembers(i)
          /\ \A i \in 1..Len(addedColls) :
               /\ tracker.collections[i] = ExpectedCollectionEntries[i]
               /\ addedColls[i].args[1] = ExpectedCollectionMembers(i)
          /\ ~last.raised =>
               /\ Len(addedGroups) = Len(ExpectedGroupEntries)
               /\ Len(addedColls) = Len(ExpectedCollectionEntries)
               /\ force.groups =
                    [i \in 1..Len(addedGroups) |->
                       [members |-> addedGroups[i].args[1],
                        num_active |-> addedGroups[i].args[2]]]
               /\ force.collections =
                    [i \in 1..Len(addedColls) |->
                       [members |-> addedColls[i].args[1],
                        num_active |-> addedColls[i].args[2]]]
     /\ UpdatedAfterOneAdd =>
          /\ \A j \in 1..Len(calls) :
               LET i == calls[j].args[1] + 1
               IN /\ calls[j].op = "modifyGroupNumActive" =>
                       /\ i \in 1..Len(tracker.groups)
                       /\ tracker.groups[i] = ExpectedGroupEntries[i]
                       /\ tracker.groups[i] # None
                       /\ force.groups[i].members = ExpectedGroupMembers(i)
                       /\ calls[j].args[2] =
                            handle_num_active(GroupAt(tracker.groups[i]).num_active,
                                              last.state)
                       /\ force.groups[i].num_active = calls[j].args[2]
                  /\ calls[j].op = "modifyCollectionNumActive" =>
                       /\ i \in 1..Len(tracker.collections)
                       /\ tracker.collections[i] = ExpectedCollectionEntries[i]
                       /\ tracker.collections[i] # None
                       /\ force.collections[i].members = ExpectedCollectionMembers(i)
                       /\ calls[j].args[2] =
                            handle_num_active(
                              CollectionAt(tracker.collections[i]).num_active,
                              last.state)
                       /\ force.collections[i].num_active = calls[j].args[2]

\* An update has pushed the count of the third collection created (the second
\* selective one, after the always-active collection) and of a group created
\* after a sentinel group.
IndexCorrespondenceWitness ==
  /\ UpdatedAfterOneAdd
  /\ ~last.raised
  /\ always_on # <<>>
  /\ \E j \in 1..Len(calls) :
       calls[j].op = "modifyCollectionNumActive" /\ calls[j].args[1] = 2
  /\ \E j \in 1..Len(calls) :
       calls[j].op = "modifyGroupNumActive" /\ calls[j].args[1] >= 2

\* ------------------------------------------------------------------- C4
\* C4: during add_interactions every selective collection is created with its
\* own num_active resolved against the current state: the addCollection call
\* of collection ci receives resolve(coll.num_active, state).
CollectionCreatedWithOwnNumActive ==
  (AddedOnce /\ ~last.raised) =>
    LET addedColls == CallsOf("addCollection")
    IN \A i \in 1..Len(addedColls) :
         ExpectedCollectionEntries[i] # None =>
           addedColls[i].args[2] =
             handle_num_active(
               CollectionAt(ExpectedCollectionEntries[i]).num_active, last.state)

\* ------------------------------------------------------------------- C5
ModifyOps ==
  {ModifyOp(kind) : kind \in KnownKinds}
    \cup {"modifyGroupNumActive", "modifyCollectionNumActive"}

\* C5: inactivity short-circuit.  A transformer is inactive exactly when it
\* claimed no always-active restraint and no selective collection; it keeps
\* that flag for ever (an active one likewise), and while inactive no
\* add_interactions or update adds a force or issues any engine call.
InactivityShortCircuit ==
  /\ [](/\ active <=> (always_on # <<>> \/ selective_on # <<>>)
        /\ ~active =>
             /\ system_forces = 0
             /\ ~force.set
             /\ calls = <<>>
             /\ ~last.raised
             /\ tracker = NewTracker)
  /\ [][active' = active]_vars

\* An inactive transformer has gone through add_interactions and an update.
InactivityShortCircuitWitness ==
  /\ ~active
  /\ regs = MaxRegs
  /\ last.op = "update"
  /\ system_forces = 0

\* ------------------------------------------------------------------- C6
\* C6: per-step ordering.  Each successful update of an active, registered
\* transformer issues updateParametersInContext exactly once, as the last
\* engine call of the step, after every restraint modify call and every
\* group / collection num_active modify call.
RecomputeLast ==
  (active /\ force.set /\ last.op = "update" /\ ~last.raised) =>
    /\ Len(calls) >= 1
    /\ calls[Len(calls)].op = "updateParametersInContext"
    /\ \A j \in 1..(Len(calls) - 1) : calls[j].op \in ModifyOps

\* A successful update pushed restraint parameters and active counts before
\* the recompute call.
RecomputeLastWitness ==
  /\ UpdatedAfterOneAdd
  /\ ~last.raised
  /\ Len(CallsOf("modifyGMMRestraint")) >= 1
  /\ Len(CallsOf("modifyGroupNumActive")) >= 1
  /\ Len(CallsOf("modifyCollectionNumActive")) >= 1
  /\ Len(CallsOf("updateParametersInContext")) = 1

\* ------------------------------------------------------------------- C7
\* C7: scale composition.  The force constant of a Distance restraint handed
\* to the engine is K * scaler(alpha) * ramp(timestep): at registration for
\* alpha = 0 and timestep = 0, at every refresh for the alpha and timestep
\* given to update; after a refresh the engine holds that value.
ScaleComposition ==
  /\ (active /\ last.op = "add_interactions") =>
       \A j \in 1..Len(calls) :
         calls[j].op = "addDistanceRestraint" =>
           LET rest == [kind |-> "Distance", n |-> calls[j].args[1] \div 10]
           IN calls[j].args[7] = k(rest) * scaler(rest, 0) * ramp(rest, 0)
  /\ (active /\ last.op = "update") =>
       \A j \in 1..Len(calls) :
         calls[j].op = "modifyDistanceRestraint" =>
           LET rest == tracker.distance_restraints[calls[j].args[1] + 1]
           IN calls[j].args[8] =
                k(rest) * scaler(rest, last.alpha) * ramp(rest, last.timestep)
  /\ (UpdatedAfterOneAdd /\ ~last.raised) =>
       \A i \in 1..Len(tracker.distance_restraints) :
         LET rest == tracker.distance_restraints[i]
         IN force.rests["Distance"][i][7] =
              k(rest) * scaler(rest, last.alpha) * ramp(rest, last.timestep)

\* A Distance restraint whose scaler grows with alpha and whose ramp grows
\* with the timestep was refreshed at alpha = 1, timestep = 0.
ScaleCompositionWitness ==
  /\ UpdatedAfterOneAdd
  /\ last.alpha = AlphaSteps
  /\ last.timestep = 0
  /\ \E j \in 1..Len(calls) :
       /\ calls[j].op = "modifyDistanceRestraint"
       /\ LET rest == tracker.distance_restraints[calls[j].args[1] + 1]
          IN /\ scaler(rest, 0) # scaler(rest, AlphaSteps)
             /\ ramp(rest, 0) # ramp(rest, 1)
             /\ calls[j].args[8] > 0

\* ------------------------------------------------------------------- C8
\* c is the integer truncation of the non-negative number v held in tenths.
IsTruncationOf(c, v) == v >= 0 /\ 10 * c <= v /\ v < 10 * c + 10

IsResolutionOf(c, num_active, state) ==
  IF num_active.param
    THEN IsTruncationOf(c, state.parameters[num_active.v])
    ELSE c = num_active.v

\* C8: active-count resolution.  Every count the transformer resolves - for a
\* selective group at registration, for a group and for a collection on every
\* update - is the literal num_active itself whatever the state holds, or for
\* a sampled parameter the integer truncation of its value in the state of
\* that call.
ActiveCountResolution ==
  /\ AddedOnce =>
       LET addedGroups == CallsOf("addGroup")
       IN \A i \in 1..Len(addedGroups) :
            ExpectedGroupEntries[i] # None =>
              IsResolutionOf(addedGroups[i].args[2],
                             GroupAt(ExpectedGroupEntries[i]).num_active,
                             last.state)
  /\ (active /\ last.op = "update") =>
       \A j \in 1..Len(calls) :
         /\ calls[j].op = "modifyGroupNumActive" =>
              IsResolutionOf(calls[j].args[2],
                             GroupAt(tracker.groups[calls[j].args[1] + 1]).num_active,
                             last.state)
         /\ calls[j].op = "modifyCollectionNumActive" =>
              IsResolutionOf(
                calls[j].args[2],
                CollectionAt(tracker.collections[calls[j].args[1] + 1]).num_active,
                last.state)

\* An update resolved a sampled parameter of value 2.7 to the count 2 for a
\* group, and a literal for a collection.
ActiveCountResolutionWitness ==
  /\ UpdatedAfterOneAdd
  /\ last.state.parameters = <<27>>
  /\ \E j \in 1..Len(calls) :
       /\ calls[j].op = "modifyGroupNumActive"
       /\ GroupAt(tracker.groups[calls[j].args[1] + 1]).num_active.param
       /\ calls[j].args[2] = 2
  /\ \E j \in 1..Len(calls) :
       /\ calls[j].op = "modifyCollectionNumActive"
       /\ ~CollectionAt(tracker.collections[calls[j].args[1] + 1]).num_active.param

\* ------------------------------------------------------------------- C9
\* The parameter list the creation call of a restraint receives at
\* (alpha, timestep).
CreationParams(rest, alpha, timestep) ==
  CASE rest.kind = "Distance" -> DistanceAddArgs(rest, alpha, timestep)
    [] rest.kind = "HyperbolicDistance" -> HyperbolicAddArgs(rest, alpha, timestep)
    [] rest.kind = "Torsion" -> TorsionAddArgs(rest, alpha, timestep)
    [] rest.kind = "DistProfile" -> DistProfileAddArgs(rest, alpha, timestep)
    [] rest.kind = "TorsProfile" -> TorsProfileAddArgs(rest, alpha, timestep)
    [] rest.kind = "GMMDistance" -> GMMAddArgs(rest, alpha, timestep)

\* C9: register/refresh agreement.  For each of the six kinds the parameter
\* list of a modify call is the index followed by exactly the list the
\* creation call of the same restraint would receive at the same
\* (alpha, timestep); a refresh at (0, 0) right after registration leaves the
\* engine with the parameters registration pushed.
RegisterRefreshAgreement ==
  /\ [](\A kind \in KnownKinds :
          (active /\ last.op = "update") =>
            LET modified == CallsOf(ModifyOp(kind))
            IN \A j \in 1..Len(modified) :
                 /\ modified[j].args[1] + 1 \in 1..Len(tracker[TrackerField(kind)])
                 /\ Tail(modified[j].args) =
                      CreationParams(
                        tracker[TrackerField(kind)][modified[j].args[1] + 1],
                        last.alpha, last.timestep))
  /\ [][(/\ AddedOnce
         /\ ~last.raised
         /\ last'.op = "update"
         /\ last'.alpha = 0
         /\ last'.timestep = 0) => force'.rests = force.rests]_vars

\* An update at alpha = 1, timestep = 1 refreshed a HyperbolicDistance and a
\* GMMDistance restraint.
RegisterRefreshAgreementWitness ==
  /\ UpdatedAfterOneAdd
  /\ ~last.raised
  /\ last.alpha = AlphaSteps
  /\ last.timestep = 1
  /\ Len(CallsOf("modifyHyperbolicDistanceRestraint")) >= 1
  /\ Len(CallsOf("modifyGMMRestraint")) >= 1

\* ------------------------------------------------------------------ C10
\* Position in registration order of the first restraint of an unknown kind,
\* 0 when there is none.
FirstUnknown ==
  LET unknown == {q \in 1..Len(RegistrationOrder) :
                    RegistrationOrder[q].kind \notin KnownKinds}
  IN IF unknown = {} THEN 0
     ELSE CHOOSE q \in unknown : \A q2 \in unknown : q <= q2

\* Position in registration order of the last restraint of the i-th group /
\* collection: the entity is created once that restraint is registered.
GroupEnd(i) ==
  LET entry == ExpectedGroupEntries[i]
  IN IF entry = None THEN i
     ELSE RestraintsBefore(entry[1], entry[2]) + Len(GroupAt(entry).restraints)

CollectionEnd(i) ==
  LET entry == ExpectedCollectionEntries[i]
  IN IF entry = None THEN Len(always_on)
     ELSE RestraintsBefore(entry[1], Len(CollectionAt(entry).groups) + 1)

RestraintCreations ==
  LET creation(c) == c.op \in {AddOp(kind) : kind \in KnownKinds}
  IN SelectSeq(calls, creation)

\* C10: an unrecognized restraint kind is fatal at registration.
\* add_interactions raises exactly when it meets a restraint that is none of
\* the six kinds; the engine then saw the creation calls of the restraints
\* before it and of the groups and collections completed before it, nothing
\* for it or after it, and the force is not added to the system.
UnknownKindFatal ==
  (active /\ last.op = "add_interactions") =>
    IF FirstUnknown = 0 THEN ~last.raised
    ELSE /\ last.raised
         /\ Len(RestraintCreations) = FirstUnknown - 1
         /\ Len(CallsOf("addGroup")) =
              Cardinality({i \in 1..Len(ExpectedGroupEntries) :
                             GroupEnd(i) < FirstUnknown})
         /\ Len(CallsOf("addCollection")) =
              Cardinality({i \in 1..Len(ExpectedCollectionEntries) :
                             CollectionEnd(i) < FirstUnknown})
         /\ Len(calls) = Len(RestraintCreations) + Len(CallsOf("addGroup"))
                           + Len(CallsOf("addCollection"))
         /\ system_forces = 0
         /\ ~force.set

\* add_interactions raised at an unknown restraint after it had created
\* restraints, a group and a collection.
UnknownKindFatalWitness ==
  /\ active
  /\ last.op = "add_interactions"
  /\ last.raised
  /\ Len(RestraintCreations) >= 2
  /\ Len(CallsOf("addGroup")) >= 2
  /\ Len(CallsOf("addCollection")) >= 1
  /\ FirstUnknown < Len(RegistrationOrder)

\* ------------------------------------------------------------------ C11
IsSentinel(entry) == entry = None

IsTrackable(entry) == entry # None

Sentinels(entries) == SelectSeq(entries, IsSentinel)

Trackables(entries) == SelectSeq(entries, IsTrackable)

\* Positions (0-based, as the engine counts) of the trackable entries.
TrackableIndices(entries) == {i - 1 : i \in {q \in 1..Len(entries) : entries[q] # None}}

TrackedRestraintCount ==
  Len(tracker.distance_restraints) + Len(tracker.hyperbolic_distance_restraints)
  + Len(tracker.torsion_restraints) + Len(tracker.dist_prof_restraints)
  + Len(tracker.torsion_profile_restraints) + Len(tracker.gmm_restraints)

SelectiveRestraintCount == Len(RegistrationOrder) - Len(always_on)

SelectiveGroupCount ==
  Len(Flatten([ci \in 1..Len(selective_on) |-> selective_on[ci].groups]))

IndicesOf(op) == {CallsOf(op)[j].args[1] : j \in 1..Len(CallsOf(op))}

\* C11: registration and update counts.  After one successful
\* add_interactions over A always-active restraints and n selective
\* collections the tracker holds A + (restraints of all groups) restraint
\* entries, A sentinel groups and one trackable group per supplied group, one
\* sentinel collection when A > 0 and n trackable collections.  Each later
\* update issues exactly one restraint modify call per tracked restraint
\* entry, one modifyGroupNumActive per trackable group, one
\* modifyCollectionNumActive per trackable collection, none for a sentinel,
\* and nothing else but the recompute call.
RegistrationAndUpdateCounts ==
  /\ (AddedOnce /\ ~last.raised) =>
       /\ TrackedRestraintCount = Len(always_on) + SelectiveRestraintCount
       /\ Len(Sentinels(tracker.groups)) = Len(always_on)
       /\ Len(Trackables(tracker.groups)) = SelectiveGroupCount
       /\ Len(Sentinels(tracker.collections)) = (IF always_on = <<>> THEN 0 ELSE 1)
       /\ Len(Trackables(tracker.collections)) = Len(selective_on)
  /\ UpdatedAfterOneAdd =>
       /\ \A kind \in KnownKinds :
            /\ Len(CallsOf(ModifyOp(kind))) = Len(tracker[TrackerField(kind)])
            /\ IndicesOf(ModifyOp(kind)) =
                 {i - 1 : i \in 1..Len(tracker[TrackerField(kind)])}
       /\ Len(CallsOf("modifyGroupNumActive")) = Len(Trackables(tracker.groups))
       /\ IndicesOf("modifyGroupNumActive") = TrackableIndices(tracker.groups)
       /\ Len(CallsOf("modifyCollectionNumActive"))
            = Len(Trackables(tracker.collections))
       /\ IndicesOf("modifyCollectionNumActive")
            = TrackableIndices(tracker.collections)
       /\ Len(calls) = TrackedRestraintCount + Len(Trackables(tracker.groups))
                         + Len(Trackables(tracker.collections)) + 1

\* Two always-active restraints and two collections of two groups of two
\* restraints were registered and then refreshed by an update.
RegistrationAndUpdateCountsWitness ==
  /\ UpdatedAfterOneAdd
  /\ ~last.raised
  /\ Len(Sentinels(tracker.groups)) = 2
  /\ Len(Sentinels(tracker.collections)) = 1
  /\ Len(Trackables(tracker.groups)) = 4
  /\ Len(Trackables(tracker.collections)) = 2
  /\ TrackedRestraintCount = 10
  /\ Len(CallsOf("modifyGroupNumActive")) = 4

\* ------------------------------------------------------------------ C12
\* The engine calls of the last operation that carry a GMM parameter list,
\* each reduced to that list (a modify call leads with the index).
GMMParameterLists ==
  [j \in 1..Len(CallsOf("addGMMRestraint")) |-> CallsOf("addGMMRestraint")[j].args]
  \o [j \in 1..Len(CallsOf("modifyGMMRestraint")) |->
        Tail(CallsOf("modifyGMMRestraint")[j].args)]

\* Place (1-based) of precisions[c, j, kk], j < kk, in a listing ordered by
\* component, then j, then kk, for D distances.
OffDiagPlace(c, j, kk, D) ==
  (c * D * (D - 1)) \div 2 + j * (D - 1) - (j * (j - 1)) \div 2 + (kk - j - 1) + 1

Unclaimed(given, claimed) ==
  LET left(r) == r \notin Range(claimed) IN SelectSeq(given, left)

\* C13: ownership transfer at construction.  After construction the caller's
\* selective-collection list holds none of the collections in selective_on
\* (it is empty), the caller's always-active list holds none of the
\* restraints in always_on, and every entry of the list the caller supplied
\* that the transformer did not claim is still in it, in order.
OwnershipTransfer ==
  /\ selectively_active_restraints = <<>>
  /\ Range(selectively_active_restraints) \cap Range(selective_on) = {}
  /\ Range(always_active_restraints) \cap Range(always_on) = {}
  /\ \A i \in 1..Len(always_on) : is_selectable(always_on[i])
  /\ \E pat \in KindPatterns, nAlways \in AlwaysCounts :
       LET given == CallerAlways(pat, nAlways)
       IN /\ always_on = claim_always_on(given)
          /\ always_active_restraints = Unclaimed(given, always_on)
          /\ Len(always_active_restraints) + Len(always_on) = Len(given)

\* The constructor claimed two always-active restraints and two collections
\* and left the caller the one restraint that is not selectable.
OwnershipTransferWitness ==
  /\ last.op = "init"
  /\ Len(always_on) = 2
  /\ Len(selective_on) = 2
  /\ always_active_restraints = <<[kind |-> NonSelectableKind, n |-> 0]>>
  /\ selectively_active_restraints = <<>>

\* ------------------------------------------------------------------ C14
\* C14: a failed step is not applied.  An update in which a restraint
\* refresh or an active-count push raises ends without the recompute call
\* (updateParametersInContext), whatever it pushed to the force object
\* before the failure.
FailedStepNotApplied ==
  (active /\ last.op = "update" /\ last.raised) =>
    /\ CallsOf("updateParametersInContext") = <<>>
    /\ \A j \in 1..Len(calls) : calls[j].op \in ModifyOps

\* An update raised in its pass over the collections and groups, after it
\* had pushed the parameters of every tracked restraint.
FailedStepNotAppliedWitness ==
  /\ active
  /\ force.set
  /\ last.op = "update"
  /\ last.raised
  /\ Len(calls) > TrackedRestraintCount
  /\ calls[Len(calls)].op \in {"modifyGroupNumActive", "modifyCollectionNumActive"}

\* ------------------------------------------------------------------ C15
\* The identity n of the restraint a creation call was computed from.
CreationSource(c) ==
  IF c.op = "addGMMRestraint" THEN c.args[4][1] \div 10 ELSE c.args[1] \div 10

\* C15: per-group resolution.  During add_interactions every group of a
\* selective collection is created with the count resolved from that very
\* group's num_active against the state of the call, whatever the enclosing
\* collection and the other groups say, and its member list holds, in order,
\* the indices the engine returned for exactly that group's restraints.
PerGroupResolution ==
  AddedOnce =>
    LET addedGroups == CallsOf("addGroup")
    IN \A i \in 1..Len(addedGroups) :
         ExpectedGroupEntries[i] # None =>
           LET group == GroupAt(ExpectedGroupEntries[i])
               members == addedGroups[i].args[1]
           IN /\ IsResolutionOf(addedGroups[i].args[2], group.num_active,
                                 last.state)
              /\ Len(members) = Len(group.restraints)
              /\ \A r \in 1..Len(members) :
                   /\ members[r] + 1 \in 1..Len(RestraintCreations)
                   /\ CreationSource(RestraintCreations[members[r] + 1])
                        = group.restraints[r].n

\* Two groups of two restraints of one collection were created with
\* different counts, the first from a selector that is not the collection's.
PerGroupResolutionWitness ==
  /\ AddedOnce
  /\ ~last.raised
  /\ \E i \in 1..(Len(CallsOf("addGroup")) - 1) :
       LET e1 == ExpectedGroupEntries[i]
           e2 == ExpectedGroupEntries[i + 1]
       IN /\ e1 # None
          /\ e2 # None
          /\ e1[1] = e2[1]
          /\ CallsOf("addGroup")[i].args[2] # CallsOf("addGroup")[i + 1].args[2]
          /\ Len(CallsOf("addGroup")[i].args[1]) = 2
          /\ GroupAt(e1).num_active # CollectionAt(e1).num_active

\* ------------------------------------------------------------------ C16
\* C16: always-active wrapping.  With A > 0 always-active restraints a
\* successful add_interactions creates, first of all, each always-active
\* restraint followed by its own singleton group with num_active = 1 holding
\* exactly the index returned for that restraint, then one collection of
\* those A group indices with num_active = A; these are the only A groups
\* and the only collection beside the selective ones.  With A = 0 no
\* sentinel group or collection is created.
AlwaysActiveWrapping ==
  (AddedOnce /\ ~last.raised) =>
    LET A == Len(always_on)
    IN /\ Len(CallsOf("addGroup")) = A + SelectiveGroupCount
       /\ Len(CallsOf("addCollection"))
            = (IF A > 0 THEN 1 ELSE 0) + Len(selective_on)
       /\ Len(Sentinels(tracker.groups)) = A
       /\ Len(Sentinels(tracker.collections)) = (IF A > 0 THEN 1 ELSE 0)
       /\ A > 0 =>
            /\ \A i \in 1..A :
                 /\ calls[2 * i - 1] = RestraintCreations[i]
                 /\ CreationSource(calls[2 * i - 1]) = always_on[i].n
                 /\ calls[2 * i] = Call("addGroup", <<<<i - 1>>, 1>>)
                 /\ force.groups[i] = [members |-> <<i - 1>>, num_active |-> 1]
                 /\ tracker.groups[i] = None
            /\ calls[2 * A + 1]
                 = Call("addCollection", <<[g \in 1..A |-> g - 1], A>>)
            /\ force.collections[1]
                 = [members |-> [g \in 1..A |-> g - 1], num_active |-> A]
            /\ tracker.collections[1] = None
       /\ A = 0 =>
            /\ \A i \in 1..Len(tracker.groups) : tracker.groups[i] # None
            /\ \A i \in 1..Len(tracker.collections) : tracker.collections[i] # None

\* Two always-active restraints were wrapped in two singleton groups and one
\* collection with both active, ahead of the selective collections.
AlwaysActiveWrappingWitness ==
  /\ AddedOnce
  /\ ~last.raised
  /\ Len(always_on) = 2
  /\ selective_on # <<>>
  /\ force.groups[2] = [members |-> <<1>>, num_active |-> 1]
  /\ force.collections[1] = [members |-> <<0, 1>>, num_active |-> 2]

\* ------------------------------------------------------------------ C17
\* Number of calls named op among the first j calls of the last operation.
CountBefore(ops, j) ==
  Cardinality({q \in 1..j : calls[q].op \in ops})

CreationOps == {AddOp(kind) : kind \in KnownKinds}

\* Number of times index m occurs in the member lists of the calls named op.
Memberships(op, m) ==
  LET all == Flatten([i \in 1..Len(CallsOf(op)) |-> CallsOf(op)[i].args[1]])
  IN Cardinality({q \in 1..Len(all) : all[q] = m})

\* C17: membership partition.  In one add_interactions no group is created
\* from a restraint index and no collection from a group index that the
\* engine did not return earlier in the same call; when the call completes,
\* every restraint index returned is a member of exactly one group and every
\* group index returned is a member of exactly one collection.
MembershipPartition ==
  AddedOnce =>
    /\ \A j \in 1..Len(calls) :
         /\ calls[j].op = "addGroup" =>
              \A r \in 1..Len(calls[j].args[1]) :
                calls[j].args[1][r] \in 0..(CountBefore(CreationOps, j - 1) - 1)
         /\ calls[j].op = "addCollection" =>
              \A g \in 1..Len(calls[j].args[1]) :
                calls[j].args[1][g] \in 0..(CountBefore({"addGroup"}, j - 1) - 1)
    /\ ~last.raised =>
         /\ \A m \in 0..(Len(RestraintCreations) - 1) :
              Memberships("addGroup", m) = 1
         /\ \A g \in 0..(Len(CallsOf("addGroup")) - 1) :
              Memberships("addCollection", g) = 1

\* Ten restraints went into six groups and the six groups into three
\* collections.
MembershipPartitionWitness ==
  /\ AddedOnce
  /\ ~last.raised
  /\ Len(RestraintCreations) = 10
  /\ Len(CallsOf("addGroup")) = 6
  /\ Len(CallsOf("addCollection")) = 3
  /\ \E i \in 1..Len(CallsOf("addGroup")) : Len(CallsOf("addGroup")[i].args[1]) = 2

\* ------------------------------------------------------------------ C18
\* C18: update leaves the tracker unchanged.  Across every update call each
\* of the eight tracker sequences keeps its length, its entries and their
\* order, and the update issues no creation call.
TrackerFrame ==
  [][last'.op = "update" =>
       /\ tracker' = tracker
       /\ \A j \in 1..Len(calls') :
            calls'[j].op \notin CreationOps \cup {"addGroup", "addCollection"}]_vars

\* An update has run over a tracker that holds restraints of two kinds,
\* sentinel and trackable groups and collections.
TrackerFrameWitness ==
  /\ UpdatedAfterOneAdd
  /\ ~last.raised
  /\ tracker.dist_prof_restraints # <<>>
  /\ tracker.torsion_profile_restraints # <<>>
  /\ Sentinels(tracker.groups) # <<>>
  /\ Trackables(tracker.groups) # <<>>
  /\ Len(tracker.collections) >= 2
  /\ Len(calls) > 1

\* ------------------------------------------------------------------ C19
\* s is some sequence written twice in a row.
IsDoubled(s) ==
  /\ Len(s) % 2 = 0
  /\ \A i \in 1..(Len(s) \div 2) : s[i] = s[i + Len(s) \div 2]

\* C19: double registration.  A second add_interactions on an active
\* transformer registers everything again: it issues every creation call
\* again on a new force object, which is added to the system as a second
\* force, and appends every restraint, group and collection to the tracker a
\* second time, so that each tracker sequence is the first registration's
\* written twice and twice as long as the number of entities the current
\* force object holds.
DoubleRegistration ==
  (active /\ regs = 2 /\ last.op = "add_interactions" /\ ~last.raised) =>
    /\ system_forces = 2
    /\ Len(RestraintCreations) = Len(RegistrationOrder)
    /\ Len(CallsOf("addGroup")) = Len(ExpectedGroupEntries)
    /\ Len(CallsOf("addCollection")) = Len(ExpectedCollectionEntries)
    /\ \A kind \in KnownKinds :
         /\ force.rests[kind] =
              [i \in 1..Len(CallsOf(AddOp(kind))) |-> CallsOf(AddOp(kind))[i].args]
         /\ Len(tracker[TrackerField(kind)]) = 2 * Len(force.rests[kind])
         /\ IsDoubled(tracker[TrackerField(kind)])
    /\ Len(force.groups) = Len(CallsOf("addGroup"))
    /\ Len(tracker.groups) = 2 * Len(force.groups)
    /\ IsDoubled(tracker.groups)
    /\ Len(force.collections) = Len(CallsOf("addCollection"))
    /\ Len(tracker.collections) = 2 * Len(force.collections)
    /\ IsDoubled(tracker.collections)

\* A transformer with always-active restraints and two collections was
\* registered twice.
DoubleRegistrationWitness ==
  /\ active
  /\ regs = 2
  /\ last.op = "add_interactions"
  /\ ~last.raised
  /\ always_on # <<>>
  /\ Len(force.collections) = 3
  /\ Len(tracker.collections) = 6
  /\ Len(tracker.groups) >= 6
  /\ system_forces = 2

\* ------------------------------------------------------------------ C20
\* C20: update before registration.  On an active transformer on which
\* add_interactions has not been called, update fails, since no force object
\* exists; it issues no modify call and no recompute call, and the tracker
\* stays empty.
UpdateBeforeRegistration ==
  (active /\ regs = 0 /\ last.op = "update") =>
    /\ last.raised
    /\ calls = <<>>
    /\ tracker = NewTracker
    /\ ~force.set
    /\ system_forces = 0

\* An update was tried on an active transformer that holds always-active
\* restraints and collections, before any registration.
UpdateBeforeRegistrationWitness ==
  /\ active
  /\ regs = 0
  /\ last.op = "update"
  /\ last.raised
  /\ always_on # <<>>
  /\ selective_on # <<>>

====
